---- MODULE Spec2Model ----
(***************************************************************************)
(* OpenField: the survey/answer store (surveys.py, db.py), the template    *)
(* answer upsert (app.py) and the QA alert engine (supervision.py).        *)
(*                                                                         *)
(* Text values are tuples of one-character strings, so that strip() and    *)
(* upper() are computed character by character.  The SQL NULL / Python     *)
(* None text value is the distinguished tuple NULL.  A NULL                *)
(* template_question_id is NoTq (AUTOINCREMENT ids start at 1).            *)
(*                                                                         *)
(* Percentages and severities are exact rationals <<numerator,             *)
(* denominator>> with the survey's answer total as denominator; the code   *)
(* computes them in binary floating point.  Comparison against the integer *)
(* thresholds used here is the same in both.  The severity, a sum of four  *)
(* doubles, is also carried as the double the code computes, bit by bit:   *)
(* the alerts are sorted on that value.                                    *)
(***************************************************************************)
EXTENDS Integers, Sequences, FiniteSets, TLC

\* ---------------------------------------------------------------- bounds
MaxSurveys == 2
MaxAnswers == 2
\* direct callers of the module functions: surveys and facility rows
MaxApiSurveys == 1
MaxFacilities == 1
\* answers of the one survey of the bulk stores
MaxBulkAnswers == 12

\* ------------------------------------------------------------ text values
NULL == <<"<null>">>

DRAFT == <<"D","R","A","F","T">>
COMPLETED == <<"C","O","M","P","L","E","T","E","D">>
LOW == <<"L","O","W">>
MEDIUM == <<"M","E","D","I","U","M">>
HIGH == <<"H","I","G","H">>
INTERVIEW == <<"I","N","T","E","R","V","I","E","W">>
OBSERVATION == <<"O","B","S","E","R","V","A","T","I","O","N">>
RECORD == <<"R","E","C","O","R","D">>
ESTIMATE == <<"E","S","T","I","M","A","T","E">>
UNAVAILABLE == <<"U","N","A","V","A","I","L","A","B","L","E">>
REFUSED == <<"R","E","F","U","S","E","D">>
NOT_APPLICABLE == <<"N","O","T","_","A","P","P","L","I","C","A","B","L","E">>
UNSURE == <<"U","N","S","U","R","E">>
TIME_CONSTRAINT == <<"T","I","M","E","_","C","O","N","S","T","R","A","I","N","T">>
MISSING_ANSWER == <<"_","_","M","I","S","S","I","N","G","_","_">>

ENUM_ALLOWED_SOURCES == {OBSERVATION, INTERVIEW, RECORD, ESTIMATE}
ENUM_ALLOWED_CONF == {HIGH, MEDIUM, LOW}
ENUM_MISSING_REASONS == {NOT_APPLICABLE, REFUSED, UNAVAILABLE, UNSURE, TIME_CONSTRAINT}

LowerLetters ==
    <<"a","b","c","d","e","f","g","h","i","j","k","l","m",
      "n","o","p","q","r","s","t","u","v","w","x","y","z">>
UpperLetters ==
    <<"A","B","C","D","E","F","G","H","I","J","K","L","M",
      "N","O","P","Q","R","S","T","U","V","W","X","Y","Z">>

\* lower-case letter |-> its upper-case letter
UpperOf ==
    [c \in {LowerLetters[i] : i \in 1..26} |->
        UpperLetters[CHOOSE i \in 1..26 : LowerLetters[i] = c]]

\* str.upper(), one character
UpperChar(c) == IF c \in DOMAIN UpperOf THEN UpperOf[c] ELSE c

\* str.upper()
StrUpper(s) == [i \in 1..Len(s) |-> UpperChar(s[i])]

IsSpace(c) == c \in {" ", "\t", "\n"}

RECURSIVE LStrip(_)
LStrip(s) == IF s # <<>> /\ IsSpace(Head(s)) THEN LStrip(Tail(s)) ELSE s

RECURSIVE RStrip(_)
RStrip(s) ==
    IF s # <<>> /\ IsSpace(s[Len(s)]) THEN RStrip(SubSeq(s, 1, Len(s) - 1)) ELSE s

\* str.strip()
StrStrip(s) == RStrip(LStrip(s))

\* Python's  (x or default)  on an optional text value
OrDefault(x, default) == IF x = NULL \/ x = <<>> THEN default ELSE x

\* ------------------------------------------------------------------ state
NoTq == 0
TemplateQuestionIds == {1}
FacilityInputs == {1}
EnumeratorInputs == {<<"a","d","a">>}
Procs == {1, 2}

VARIABLES
    surveys,    \* table surveys: row id |-> the row's columns
    answers,    \* table survey_answers: row id |-> answer row
    facilities, \* table facilities: the number of rows (ids 1..facilities)
    dash,       \* the last qa_alerts_dashboard or export call: arguments, result
    detail,     \* the last get_survey_details call: its argument and outcome
    pc,         \* per request thread: position inside _upsert_template_answer
    req,        \* per request thread: arguments of the running upsert
    found,      \* per request thread: row id returned by the upsert's SELECT
    lastw       \* history: the upsert whose write was committed most recently

threads == <<pc, req, found, lastw>>
vars == <<surveys, answers, facilities, dash, detail, pc, req, found, lastw>>

NoCall == [state |-> "idle"]
NoDetail == [state |-> "idle"]
NoReq == [survey_id |-> 0]


\* --------------------------------------------------------- store writers

\* the values create_survey's callers pass and the clock gives; none of
\* them is read by a condition of the code
ManualTemplate == NULL
SurveyTypeInput == <<"b","a","s","e","l","i","n","e">>
NowIso == <<"n","o","w">>

\* surveys.create_survey: INSERT ... status 'DRAFT'
InsertSurvey(svs, facility_id, enumerator_name) ==
    Append(svs, [facility_id |-> facility_id,
                 template_id |-> ManualTemplate,
                 survey_type |-> SurveyTypeInput,
                 enumerator_name |-> enumerator_name,
                 status |-> DRAFT,
                 created_at |-> NowIso])

\* mutant: the UPDATE flips the status, reopening a completed survey
SetCompleted_Toggle(svs, sid) ==
    [i \in DOMAIN svs |->
        IF i = sid
        THEN [svs[i] EXCEPT !.status = IF svs[i].status = COMPLETED THEN DRAFT ELSE COMPLETED]
        ELSE svs[i]]

\* surveys.complete_survey: UPDATE surveys SET status='COMPLETED' WHERE id = ?
SetCompleted(svs, sid) ==
    [i \in DOMAIN svs |-> IF i = sid THEN [svs[i] EXCEPT !.status = COMPLETED] ELSE svs[i]]

\* mutant: the answer guard dropped
AddAnswerRaises_QuestionOnly(a) ==
    StrStrip(OrDefault(a.question, <<>>)) = <<>>

\* surveys.add_answer: the two ValueError guards
AddAnswerRaises(a) ==
    \/ StrStrip(OrDefault(a.question, <<>>)) = <<>>
    \/ StrStrip(OrDefault(a.answer, <<>>)) = <<>> /\ a.is_missing = 0

\* surveys.add_answer: the inserted row (question and answer stripped)
AnswerRow(sid, a) ==
    [survey_id |-> sid,
     template_question_id |-> a.template_question_id,
     question |-> StrStrip(OrDefault(a.question, <<>>)),
     answer |-> StrStrip(OrDefault(a.answer, <<>>)),
     answer_source |-> a.answer_source,
     confidence_level |-> a.confidence_level,
     is_missing |-> a.is_missing,
     missing_reason |-> a.missing_reason]

\* surveys.add_answer: INSERT INTO survey_answers, or no change when it raises
InsertAnswer(ans, sid, a) ==
    IF AddAnswerRaises(a) THEN ans ELSE Append(ans, AnswerRow(sid, a))

\* app._upsert_template_answer: SELECT id ... WHERE survey_id=? AND
\* template_question_id=? LIMIT 1 -- the rows the SELECT may return
MatchingRows(ans, sid, tqid) ==
    {i \in DOMAIN ans : ans[i].survey_id = sid /\ ans[i].template_question_id = tqid}

\* LIMIT 1 without ORDER BY: any matching row; 0 when there is none
LookupResults(ans, sid, tqid) ==
    IF MatchingRows(ans, sid, tqid) = {} THEN {0} ELSE MatchingRows(ans, sid, tqid)

\* mutant: the UPDATE rewrites every row of the survey the matched row is in
UpdateAnswer_WholeSurvey(ans, aid, a) ==
    [i \in DOMAIN ans |->
        IF ans[i].survey_id = ans[aid].survey_id
        THEN [ans[i] EXCEPT !.question = a.question,
                            !.answer = a.answer,
                            !.answer_source = a.answer_source,
                            !.confidence_level = a.confidence_level,
                            !.is_missing = a.is_missing,
                            !.missing_reason = a.missing_reason]
        ELSE ans[i]]

\* mutant: missing_reason left out of the SET list
UpdateAnswer_KeepsReason(ans, aid, a) ==
    [i \in DOMAIN ans |->
        IF i = aid
        THEN [ans[i] EXCEPT !.question = a.question,
                            !.answer = a.answer,
                            !.answer_source = a.answer_source,
                            !.confidence_level = a.confidence_level,
                            !.is_missing = a.is_missing]
        ELSE ans[i]]

\* app._upsert_template_answer: UPDATE survey_answers SET ... WHERE id=?
UpdateAnswer(ans, aid, a) ==
    [i \in DOMAIN ans |->
        IF i = aid
        THEN [ans[i] EXCEPT !.question = a.question,
                            !.answer = a.answer,
                            !.answer_source = a.answer_source,
                            !.confidence_level = a.confidence_level,
                            !.is_missing = a.is_missing,
                            !.missing_reason = a.missing_reason]
        ELSE ans[i]]

\* app._upsert_template_answer after its SELECT returned row id aid (0: none)
UpsertWrite(ans, aid, sid, a) ==
    IF aid # 0 THEN UpdateAnswer(ans, aid, a) ELSE InsertAnswer(ans, sid, a)

\* app.enum_template_answer: source / confidence defaulting
CleanChoice(x, allowed, default) ==
    LET v == StrUpper(StrStrip(OrDefault(x, default)))
    IN  IF v \in allowed THEN v ELSE default

\* app.enum_template_answer: the arguments it passes to the upsert
TemplateAnswerArgs(tqid, answer, source, conf) ==
    [question |-> <<"Q">>,
     answer |-> StrStrip(OrDefault(answer, <<>>)),
     template_question_id |-> tqid,
     answer_source |-> CleanChoice(source, ENUM_ALLOWED_SOURCES, INTERVIEW),
     confidence_level |-> CleanChoice(conf, ENUM_ALLOWED_CONF, MEDIUM),
     is_missing |-> 0,
     missing_reason |-> NULL]

\* app.enum_template_skip: the arguments it passes to the upsert
TemplateSkipArgs(tqid, reason) ==
    [question |-> <<"Q">>,
     answer |-> MISSING_ANSWER,
     template_question_id |-> tqid,
     answer_source |-> NULL,
     confidence_level |-> NULL,
     is_missing |-> 1,
     missing_reason |-> CleanChoice(reason, ENUM_MISSING_REASONS, UNAVAILABLE)]

\* arguments add_answer is called with directly (surveys.add_answer docstring,
\* app.enum_manual_add, menu.run_menu)
AddAnswerInputs ==
    { [question |-> <<"Q">>, answer |-> <<"A">>, template_question_id |-> NoTq,
       answer_source |-> NULL, confidence_level |-> NULL,
       is_missing |-> 0, missing_reason |-> NULL],
      [question |-> <<"Q">>, answer |-> <<"A">>, template_question_id |-> 1,
       answer_source |-> INTERVIEW, confidence_level |-> HIGH,
       is_missing |-> 0, missing_reason |-> NULL],
      [question |-> <<" ">>, answer |-> <<"A">>, template_question_id |-> NoTq,
       answer_source |-> NULL, confidence_level |-> NULL,
       is_missing |-> 0, missing_reason |-> NULL],
      [question |-> <<"Q">>, answer |-> <<" ">>, template_question_id |-> NoTq,
       answer_source |-> NULL, confidence_level |-> NULL,
       is_missing |-> 0, missing_reason |-> NULL] }

\* arguments a direct caller may pass: add_answer takes free text for source
\* and confidence, any int for is_missing and does not look at missing_reason
AddAnswerApiInputs ==
    { [question |-> <<"Q">>, answer |-> <<"A">>, template_question_id |-> NoTq,
       answer_source |-> NULL, confidence_level |-> NULL,
       is_missing |-> 0, missing_reason |-> NULL],
      [question |-> <<"Q">>, answer |-> <<"A">>, template_question_id |-> NoTq,
       answer_source |-> INTERVIEW, confidence_level |-> <<" ","l","o","w"," ">>,
       is_missing |-> 0, missing_reason |-> NULL],
      [question |-> <<"Q">>, answer |-> <<"A">>, template_question_id |-> NoTq,
       answer_source |-> <<" ">>, confidence_level |-> HIGH,
       is_missing |-> 0, missing_reason |-> NULL],
      [question |-> <<"Q">>, answer |-> <<>>, template_question_id |-> NoTq,
       answer_source |-> NULL, confidence_level |-> NULL,
       is_missing |-> 1, missing_reason |-> NULL],
      [question |-> <<"Q">>, answer |-> <<"A">>, template_question_id |-> NoTq,
       answer_source |-> NULL, confidence_level |-> NULL,
       is_missing |-> 2, missing_reason |-> REFUSED],
      [question |-> <<"Q">>, answer |-> <<>>, template_question_id |-> NoTq,
       answer_source |-> NULL, confidence_level |-> NULL,
       is_missing |-> 0, missing_reason |-> NULL] }

\* form values posted to enum_template_answer
ConfidenceInputs == {<<"l","o","w">>, <<"h","i","g","h">>}
SourceInputs == {NULL}
\* form values posted to enum_template_skip
ReasonInputs == {NULL}

TemplateUpsertInputs ==
    {TemplateAnswerArgs(t, <<"A">>, s, c) :
        t \in TemplateQuestionIds, s \in SourceInputs, c \in ConfidenceInputs}
    \cup {TemplateSkipArgs(t, r) : t \in TemplateQuestionIds, r \in ReasonInputs}


\* ------------------------------------------------------------ alert engine

\* mutant: the default of the status filter is DRAFT
NormStatus_DefaultDraft(f) == StrUpper(StrStrip(OrDefault(f, DRAFT)))

\* supervision.qa_alerts_dashboard: (status_filter or "COMPLETED").strip().upper()
NormStatus(f) == StrUpper(StrStrip(OrDefault(f, COMPLETED)))

\* mutant: the WHERE status = ? clause dropped
RECURSIVE SelectSurveys_AnyStatus(_, _, _)
SelectSurveys_AnyStatus(svs, st, n) ==
    IF n = 0 THEN <<>> ELSE <<n>> \o SelectSurveys_AnyStatus(svs, st, n - 1)

\* SELECT id ... FROM surveys WHERE status = ? ORDER BY id DESC  (ids n, n-1, .. 1)
RECURSIVE SelectSurveys(_, _, _)
SelectSurveys(svs, st, n) ==
    IF n = 0 THEN <<>>
    ELSE (IF svs[n].status = st THEN <<n>> ELSE <<>>) \o SelectSurveys(svs, st, n - 1)

RECURSIVE SeqSum(_)
SeqSum(s) == IF s = <<>> THEN 0 ELSE Head(s) + SeqSum(Tail(s))

\* mutant: a LOW confidence level is counted as no confidence as well
AggregateRows_LowIsNoConf(rows) ==
    LET n == Len(rows)
    IN  [total |-> n,
         missing |-> SeqSum([i \in 1..n |-> rows[i].is_missing]),
         low_conf |-> SeqSum([i \in 1..n |->
                        IF rows[i].confidence_level = LOW THEN 1 ELSE 0]),
         no_source |-> SeqSum([i \in 1..n |->
                        IF rows[i].answer_source = NULL \/ rows[i].answer_source = <<>>
                        THEN 1 ELSE 0]),
         no_conf |-> SeqSum([i \in 1..n |->
                        IF rows[i].confidence_level \in {NULL, <<>>, LOW}
                        THEN 1 ELSE 0])]

\* SELECT COUNT(*), SUM(is_missing), SUM(CASE ...) over the given rows
\* (a NULL sum over no rows is read as 0)
AggregateRows(rows) ==
    LET n == Len(rows)
    IN  [total |-> n,
         missing |-> SeqSum([i \in 1..n |-> rows[i].is_missing]),
         low_conf |-> SeqSum([i \in 1..n |->
                        IF rows[i].confidence_level = LOW THEN 1 ELSE 0]),
         no_source |-> SeqSum([i \in 1..n |->
                        IF rows[i].answer_source = NULL \/ rows[i].answer_source = <<>>
                        THEN 1 ELSE 0]),
         no_conf |-> SeqSum([i \in 1..n |->
                        IF rows[i].confidence_level = NULL \/ rows[i].confidence_level = <<>>
                        THEN 1 ELSE 0])]

\* ... FROM survey_answers WHERE survey_id = ?
Aggregate(ans, sid) == AggregateRows(SelectSeq(ans, LAMBDA r : r.survey_id = sid))

\* (count * 100.0) / total, as the rational <<numerator, denominator>>
Pct(count, total) == <<100 * count, total>>

\* mutant: strict comparison
PctGE_Strict(p, thr) == p[1] > thr * p[2]

\* mutant: inverted comparison
PctGE_Inverted(p, thr) == p[1] <= thr * p[2]

\* pct >= float(threshold)
PctGE(p, thr) == p[1] >= thr * p[2]

\* mutant: an elif chain, at most one tag per record
Flags_FirstOnly(m, thr) ==
    IF PctGE(Pct(m.missing, m.total), thr.missing) THEN <<"MISSING">>
    ELSE IF PctGE(Pct(m.low_conf, m.total), thr.low_conf) THEN <<"LOW_CONF">>
    ELSE IF PctGE(Pct(m.no_source, m.total), thr.no_source) THEN <<"NO_SOURCE">>
    ELSE IF PctGE(Pct(m.no_conf, m.total), thr.no_conf) THEN <<"NO_CONF">>
    ELSE <<>>

\* the four  if pct >= threshold: flags.append(tag)  statements, in order
Flags(m, thr) ==
    (IF PctGE(Pct(m.missing, m.total), thr.missing) THEN <<"MISSING">> ELSE <<>>)
    \o (IF PctGE(Pct(m.low_conf, m.total), thr.low_conf) THEN <<"LOW_CONF">> ELSE <<>>)
    \o (IF PctGE(Pct(m.no_source, m.total), thr.no_source) THEN <<"NO_SOURCE">> ELSE <<>>)
    \o (IF PctGE(Pct(m.no_conf, m.total), thr.no_conf) THEN <<"NO_CONF">> ELSE <<>>)

\* ------------------------------------------------------ double arithmetic
\* The percentages and the severity are Python floats (IEEE 754 doubles).  A
\* non-negative double is <<ip, a, b, c, d>>: its integer part and the 52 bits
\* after the binary point in four limbs of 13 bits, most significant first;
\* a double with integer part in [2^e, 2^(e+1)) has 52 - e fraction bits, so
\* its lowest e bits are 0.  Values in (0, 1) do not occur: a non-zero
\* percentage is 100 * count / total with total <= 100 * count in every
\* store modelled here.

Limb == 8192

FZero == <<0, 0, 0, 0, 0>>

\* the binary exponent of a double with integer part ip >= 1
Exponent(ip) == CHOOSE e \in 0..12 : 2^e <= ip /\ ip < 2^(e + 1)

\* round to nearest, ties to even: the double nearest to the exact value
\* ip + 0.abcdg..., where g is a fifth limb and sticky tells that the exact
\* value has further non-zero bits
RoundNearestEven(ip, a, b, c, d, g, sticky) ==
    LET q == 2^Exponent(ip)
        low == d % q
        dropped == low * Limb + g
        half == q * (Limb \div 2)
        last == (d \div q) % 2
        up == dropped > half \/ (dropped = half /\ (sticky \/ last = 1))
        d1 == (d - low) + (IF up THEN q ELSE 0)
        c1 == c + (d1 \div Limb)
        b1 == b + (c1 \div Limb)
        a1 == a + (b1 \div Limb)
    IN  <<ip + (a1 \div Limb), a1 % Limb, b1 % Limb, c1 % Limb, d1 % Limb>>

\* float(n) / t for integers n >= 0, t > 0 (n = 0 or n >= t)
FDiv(n, t) ==
    IF n = 0 THEN FZero
    ELSE LET r0 == n % t
             r1 == (r0 * Limb) % t
             r2 == (r1 * Limb) % t
             r3 == (r2 * Limb) % t
             r4 == (r3 * Limb) % t
         IN  RoundNearestEven(n \div t, (r0 * Limb) \div t, (r1 * Limb) \div t,
                              (r2 * Limb) \div t, (r3 * Limb) \div t,
                              (r4 * Limb) \div t, (r4 * Limb) % t # 0)

\* x + y
FAdd(x, y) ==
    LET d == x[5] + y[5]
        c == x[4] + y[4] + (d \div Limb)
        b == x[3] + y[3] + (c \div Limb)
        a == x[2] + y[2] + (b \div Limb)
        ip == x[1] + y[1] + (a \div Limb)
    IN  IF ip = 0 THEN FZero
        ELSE RoundNearestEven(ip, a % Limb, b % Limb, c % Limb, d % Limb,
                              0, FALSE)

\* x > y
FGT(x, y) ==
    \E i \in 1..5 : x[i] > y[i] /\ \A j \in 1..(i - 1) : x[j] = y[j]

\* (count * 100.0) / total as a double
PctDouble(count, total) == FDiv(100 * count, total)

\* missing_pct + low_conf_pct + no_source_pct + no_conf_pct, added left to
\* right in double arithmetic
SeverityDouble(total, missing, low_conf, no_source, no_conf) ==
    FAdd(FAdd(FAdd(PctDouble(missing, total), PctDouble(low_conf, total)),
              PctDouble(no_source, total)),
         PctDouble(no_conf, total))

\* the aggregates of up to MaxAnswers rows whose is_missing is at most 2 with
\* their double sums, tabulated (@@ yields the enumerated function)
SeverityKeys ==
    {k \in (1..MaxAnswers) \X (0..(2 * MaxAnswers)) \X (0..MaxAnswers)
            \X (0..MaxAnswers) \X (0..MaxAnswers) :
        k[2] <= 2 * k[1] /\ k[3] <= k[1] /\ k[4] <= k[1] /\ k[5] <= k[1]}
SeverityMemo ==
    [k \in SeverityKeys |-> SeverityDouble(k[1], k[2], k[3], k[4], k[5])] @@ <<>>

\* mutant: the no-confidence percentage left out of the sum
Severity_ThreeTerms(m) ==
    <<Pct(m.missing, m.total)[1] + Pct(m.low_conf, m.total)[1]
        + Pct(m.no_source, m.total)[1],
      m.total,
      SeverityDouble(m.total, m.missing, m.low_conf, m.no_source, 0)>>

\* severity = missing_pct + low_conf_pct + no_source_pct + no_conf_pct:
\* <<numerator, denominator, double>>, the exact value of the sum and the
\* double the code stores in the alert
Severity(m) ==
    <<Pct(m.missing, m.total)[1] + Pct(m.low_conf, m.total)[1]
        + Pct(m.no_source, m.total)[1] + Pct(m.no_conf, m.total)[1],
      m.total,
      IF <<m.total, m.missing, m.low_conf, m.no_source, m.no_conf>> \in SeverityKeys
      THEN SeverityMemo[<<m.total, m.missing, m.low_conf, m.no_source, m.no_conf>>]
      ELSE SeverityDouble(m.total, m.missing, m.low_conf, m.no_source, m.no_conf)>>

\* mutant: the  total == 0  check dropped
SkipSurvey_FlagsOnly(m, flags) == flags = <<>>

\* mutant: the  not flags  check dropped
SkipSurvey_TotalOnly(m, flags) == m.total = 0

\* the two  continue  statements of the scan loop
SkipSurvey(m, flags) == m.total = 0 \/ flags = <<>>

\* facilities.add_facility stores a stripped, non-empty name
FacilityRowName(fid) == <<"c","l","i","n","i","c">>

\* mutant: no placeholder, the missing row's name left empty
FacilityName_NoPlaceholder(nfac, fid) ==
    IF fid \in 1..nfac THEN FacilityRowName(fid) ELSE NULL

\* SELECT name FROM facilities WHERE id = ?  and
\* facility_name = frow["name"] if frow else "-"
FacilityName(nfac, fid) ==
    IF fid \in 1..nfac THEN FacilityRowName(fid) ELSE <<"-">>

\* the alert dict appended for one survey
AlertRecord(svs, nfac, sid, m, flags) ==
    [survey_id |-> sid,
     facility_id |-> svs[sid].facility_id,
     facility_name |-> FacilityName(nfac, svs[sid].facility_id),
     template_id |-> svs[sid].template_id,
     survey_type |-> svs[sid].survey_type,
     enumerator_name |-> svs[sid].enumerator_name,
     status |-> svs[sid].status,
     created_at |-> svs[sid].created_at,
     total_answers |-> m.total,
     flags |-> flags,
     severity |-> Severity(m)]

\* for s in surveys: ... alerts.append({...})
RECURSIVE ScanSurveys(_, _, _, _, _)
ScanSurveys(svs, nfac, ans, sel, thr) ==
    IF sel = <<>> THEN <<>>
    ELSE LET sid == Head(sel)
             m == Aggregate(ans, sid)
             flags == Flags(m, thr)
             rest == ScanSurveys(svs, nfac, ans, Tail(sel), thr)
         IN  IF SkipSurvey(m, flags) THEN rest
             ELSE <<AlertRecord(svs, nfac, sid, m, flags)>> \o rest

\* mutant: ascending order (reverse=True forgotten)
SevGT_Ascending(x, y) == FGT(y.severity[3], x.severity[3])

\* mutant: an unstable sort that moves a later alert ahead of its equals
SevGT_OrEqual(x, y) == ~FGT(y.severity[3], x.severity[3])

\* x["severity"] > y["severity"] on the doubles
SevGT(x, y) == FGT(x.severity[3], y.severity[3])

\* mutant: an alert whose severity equals one already placed is dropped
RECURSIVE InsertDesc_DropTies(_, _)
InsertDesc_DropTies(x, s) ==
    IF s = <<>> THEN <<x>>
    ELSE IF SevGT(x, Head(s)) THEN <<x>> \o s
    ELSE IF SevGT(Head(s), x) THEN <<Head(s)>> \o InsertDesc_DropTies(x, Tail(s))
    ELSE s

\* place x behind every element whose severity is >= its own
RECURSIVE InsertDesc(_, _)
InsertDesc(x, s) ==
    IF s = <<>> THEN <<x>>
    ELSE IF SevGT(x, Head(s)) THEN <<x>> \o s
    ELSE <<Head(s)>> \o InsertDesc(x, Tail(s))

\* alerts.sort(key=lambda x: x["severity"], reverse=True): stable, descending
RECURSIVE SortBySeverity(_)
SortBySeverity(s) ==
    IF s = <<>> THEN <<>>
    ELSE InsertDesc(s[Len(s)], SortBySeverity(SubSeq(s, 1, Len(s) - 1)))

\* mutant: off by one, alerts[:limit + 1]
Truncate_OffByOne(s, limit) ==
    LET n == Len(s)
        k == limit + 1
        stop == IF k < 0 THEN (IF n + k < 0 THEN 0 ELSE n + k)
                ELSE (IF k > n THEN n ELSE k)
    IN  SubSeq(s, 1, stop)

\* alerts[:int(limit)]  (a negative limit counts from the end)
Truncate(s, limit) ==
    LET n == Len(s)
        stop == IF limit < 0 THEN (IF n + limit < 0 THEN 0 ELSE n + limit)
                ELSE (IF limit > n THEN n ELSE limit)
    IN  SubSeq(s, 1, stop)

\* supervision.qa_alerts_dashboard
QaAlerts(svs, nfac, ans, a) ==
    Truncate(
        SortBySeverity(
            ScanSurveys(svs, nfac, ans, SelectSurveys(svs, NormStatus(a.status_filter), Len(svs)),
                        a.thr)),
        a.limit)

\* arguments of qa_alerts_dashboard
Thr(m, l, s, c) == [missing |-> m, low_conf |-> l, no_source |-> s, no_conf |-> c]
DefaultThr == Thr(20, 20, 10, 10)
DefaultLimit == 50
ThresholdInputs == {DefaultThr, Thr(0, 0, 0, 0), Thr(100, 50, 101, 101)}
StatusFilterInputs ==
    {NULL, <<>>, <<" ","c","o","m","p","l","e","t","e","d"," ">>, <<"d","r","a","f","t">>}
LimitInputs == {-1, 0, 1}
\* every filter and threshold set with the default limit, and the other
\* limits with the default filter
DashInputs ==
    [status_filter : StatusFilterInputs, thr : ThresholdInputs, limit : {DefaultLimit}]
    \cup [status_filter : {NULL}, thr : ThresholdInputs, limit : LimitInputs]

\* the supervisor's dashboard call with its defaults (menu choice 20)
ScanInputs ==
    {[status_filter |-> NULL, thr |-> DefaultThr, limit |-> DefaultLimit]}

\* the template form posts that arrive while a scan runs: an answer with the
\* default source and confidence, and a skip
ScanUpsertInputs ==
    {TemplateAnswerArgs(t, <<"A">>, NULL, NULL) : t \in TemplateQuestionIds}
    \cup {TemplateSkipArgs(t, NULL) : t \in TemplateQuestionIds}

\* the dashboard over the surveys still in DRAFT
DraftDashInputs ==
    [status_filter : {<<"d","r","a","f","t">>}, thr : {DefaultThr}, limit : {DefaultLimit}]

\* ------------------------------------------- enumerator performance
\* enumerator_performance_dashboard is imported and called by menu.run_menu;
\* its body is described by section 4.3 of the specification: the alert
\* engine with enumerator_name as the grouping key.

\* the enumerators of the selected surveys, each once, in scan order
RECURSIVE EnumeratorsOf(_, _)
EnumeratorsOf(svs, sel) ==
    IF sel = <<>> THEN <<>>
    ELSE LET name == svs[Head(sel)].enumerator_name
         IN  <<name>> \o SelectSeq(EnumeratorsOf(svs, Tail(sel)), LAMBDA n : n # name)

\* the aggregate over the union of the answers of one enumerator's selected
\* surveys
AggregateUnion(svs, ans, sel, name) ==
    AggregateRows(SelectSeq(ans, LAMBDA r :
        \E i \in DOMAIN sel :
            sel[i] = r.survey_id /\ svs[sel[i]].enumerator_name = name))

\* the record of one enumerator
EnumeratorRecord(name, m, flags) ==
    [enumerator_name |-> name,
     total_answers |-> m.total,
     flags |-> flags,
     severity |-> Severity(m)]

\* one record per enumerator, with the skip rules of the alert engine
RECURSIVE ScanEnumerators(_, _, _, _, _)
ScanEnumerators(svs, ans, sel, names, thr) ==
    IF names = <<>> THEN <<>>
    ELSE LET m == AggregateUnion(svs, ans, sel, Head(names))
             flags == Flags(m, thr)
             rest == ScanEnumerators(svs, ans, sel, Tail(names), thr)
         IN  IF SkipSurvey(m, flags) THEN rest
             ELSE <<EnumeratorRecord(Head(names), m, flags)>> \o rest

\* enumerator_performance_dashboard(status_filter, thresholds, limit)
EnumeratorPerformance(svs, ans, a) ==
    LET sel == SelectSurveys(svs, NormStatus(a.status_filter), Len(svs))
    IN  Truncate(
            SortBySeverity(
                ScanEnumerators(svs, ans, sel, EnumeratorsOf(svs, sel), a.thr)),
            a.limit)

\* the arguments of the menu's call (the defaults) and of other callers
PerfInputs ==
    {[status_filter |-> NULL, thr |-> DefaultThr, limit |-> DefaultLimit],
     [status_filter |-> NULL, thr |-> Thr(0, 0, 0, 0), limit |-> 1],
     [status_filter |-> <<"d","r","a","f","t">>, thr |-> Thr(100, 50, 101, 101),
      limit |-> DefaultLimit]}

\* the names the enumerators type into the survey form
PerfEnumeratorInputs == {<<"a","d","a">>, <<"b","o">>}

\* ------------------------------------------------------------ CSV export

\* qa_exports.export_qa_alerts_csv: its default arguments
ExportArgs == [status_filter |-> COMPLETED, thr |-> DefaultThr, limit |-> 200]

\* the keys the export reads from each alert,  a["survey_id"] ... a["severity"]
ExportKeys ==
    {"survey_id", "facility_id", "facility_name", "template_id", "survey_type",
     "enumerator_name", "status", "created_at", "total_answers",
     "missing", "missing_pct", "low_confidence", "low_conf_pct",
     "no_source", "no_source_pct", "no_confidence", "no_conf_pct",
     "flags", "severity"}

\* for a in alerts: w.writerow([...]) -- the data rows written, up to the
\* first alert that lacks a key, where the subscript raises KeyError
ExportOutcome(alerts) ==
    LET bad == {k \in DOMAIN alerts : ~(ExportKeys \subseteq DOMAIN alerts[k])}
    IN  IF bad = {} THEN [state |-> "written", rows |-> Len(alerts)]
        ELSE [state |-> "raised", error |-> "KeyError",
              rows |-> (CHOOSE k \in bad : \A j \in bad : k <= j) - 1]

\* --------------------------------------------------------- survey details

\* supervision.get_survey_details: FROM surveys s JOIN facilities f
\* ON f.id = s.facility_id -- the surveys that have a joined row
JoinedSurveys(svs, nfac) == {i \in DOMAIN svs : svs[i].facility_id \in 1..nfac}

\* mutant: the WHERE s.id = ? clause dropped
HeaderRows_NoWhere(svs, nfac, sid) == JoinedSurveys(svs, nfac)

\* ... WHERE s.id = ?   (the rows cur.fetchone() may return)
HeaderRows(svs, nfac, sid) == {i \in JoinedSurveys(svs, nfac) : i = sid}

\* the header tuple
Header(svs, i) ==
    [id |-> i, facility_id |-> svs[i].facility_id, status |-> svs[i].status]

\* SELECT ... FROM survey_answers WHERE survey_id = ? ORDER BY id ASC, and
\* the tuple built from each row
DetailAnswers(ans, sid) ==
    LET ids == SelectSeq([i \in 1..Len(ans) |-> i], LAMBDA i : ans[i].survey_id = sid)
    IN  [k \in 1..Len(ids) |->
            [id |-> ids[k],
             template_question_id |-> ans[ids[k]].template_question_id,
             question |-> ans[ids[k]].question,
             answer |-> ans[ids[k]].answer,
             answer_source |-> ans[ids[k]].answer_source,
             confidence_level |-> ans[ids[k]].confidence_level,
             is_missing |-> ans[ids[k]].is_missing,
             missing_reason |-> ans[ids[k]].missing_reason]]

\* mutant: the confidence level compared as stored
IsLowConfidence_Exact(c) == c = LOW

\* (a[5] or "").strip().upper() == "LOW"
IsLowConfidence(c) == StrUpper(StrStrip(OrDefault(c, <<>>))) = LOW

\* not (x or "").strip()
IsBlank(x) == StrStrip(OrDefault(x, <<>>)) = <<>>

\* the qa dict
QaSummary(rows) ==
    [total_answers |-> Len(rows),
     missing_count |-> Len(SelectSeq(rows, LAMBDA a : a.is_missing = 1)),
     low_confidence_count |->
        Len(SelectSeq(rows, LAMBDA a : IsLowConfidence(a.confidence_level))),
     no_source_count |-> Len(SelectSeq(rows, LAMBDA a : IsBlank(a.answer_source))),
     no_confidence_count |->
        Len(SelectSeq(rows, LAMBDA a : IsBlank(a.confidence_level)))]

\* what get_survey_details(sid) does once fetchone() gave h (0: no row)
DetailOutcome(svs, ans, sid, h) ==
    IF h = 0
    THEN [state |-> "raised", survey_id |-> sid, error |-> "Survey not found."]
    ELSE [state |-> "returned", survey_id |-> sid,
          header |-> Header(svs, h),
          answers |-> DetailAnswers(ans, sid),
          qa |-> QaSummary(DetailAnswers(ans, sid))]

\* survey ids asked for, one of them never stored
DetailInputs == 1..(MaxApiSurveys + 1)
\* facility ids given to create_survey by a direct caller
ApiFacilityInputs == {1, 2}

\* ---------------------------------------------------------------- actions

Init ==
    /\ surveys = <<>>
    /\ answers = <<>>
    /\ facilities = 0
    /\ dash = NoCall
    /\ detail = NoDetail
    /\ pc = [p \in Procs |-> "idle"]
    /\ req = [p \in Procs |-> NoReq]
    /\ found = [p \in Procs |-> 0]
    /\ lastw = NoReq

\* no call is in progress: one caller at a time (menu.run_menu)
Quiet == dash = NoCall /\ detail = NoDetail /\ \A p \in Procs : pc[p] = "idle"

\* surveys.create_survey
CreateSurvey ==
    /\ Quiet
    /\ Len(surveys) < MaxSurveys
    /\ \E f \in FacilityInputs, e \in EnumeratorInputs :
          surveys' = InsertSurvey(surveys, f, e)
    /\ UNCHANGED <<answers, facilities, dash, detail, threads>>

\* surveys.complete_survey
CompleteSurvey ==
    /\ Quiet
    /\ \E sid \in DOMAIN surveys : surveys' = SetCompleted(surveys, sid)
    /\ UNCHANGED <<answers, facilities, dash, detail, threads>>

\* surveys.add_answer
AddAnswer ==
    /\ Quiet
    /\ Len(answers) < MaxAnswers
    /\ \E sid \in DOMAIN surveys, a \in AddAnswerInputs :
          answers' = InsertAnswer(answers, sid, a)
    /\ UNCHANGED <<surveys, facilities, dash, detail, threads>>

\* _upsert_template_answer(sid, ...) with the arguments a: its SELECT and the
\* UPDATE or INSERT that follows
UpsertOf(sid, a) ==
    \E aid \in LookupResults(answers, sid, a.template_question_id) :
        /\ aid = 0 => Len(answers) < MaxAnswers
        /\ answers' = UpsertWrite(answers, aid, sid, a)

\* app._upsert_template_answer, run to completion by one caller
\* (enum_template_answer, enum_template_skip)
UpsertTemplateAnswer ==
    /\ Quiet
    /\ \E sid \in DOMAIN surveys, a \in TemplateUpsertInputs : UpsertOf(sid, a)
    /\ UNCHANGED <<surveys, facilities, dash, detail, threads>>

\* supervision.qa_alerts_dashboard
QaAlertsDashboard ==
    /\ Quiet
    /\ \E a \in DashInputs :
          dash' = [state |-> "returned", args |-> a, alerts |-> QaAlerts(surveys, facilities, answers, a)]
    /\ UNCHANGED <<surveys, answers, facilities, detail, threads>>

\* qa_exports.export_qa_alerts_csv() with its defaults (menu choice 21)
ExportQaAlertsCsv ==
    /\ Quiet
    /\ LET al == QaAlerts(surveys, facilities, answers, ExportArgs)
       IN  dash' = [state |-> "exported", args |-> ExportArgs, alerts |-> al,
                    export |-> ExportOutcome(al)]
    /\ UNCHANGED <<surveys, answers, facilities, detail, threads>>

\* the caller is done with the returned list or the export's outcome
\* (app.api_qa_alerts, menu.run_menu)
DashReturn ==
    /\ dash # NoCall
    /\ dash' = NoCall
    /\ UNCHANGED <<surveys, answers, facilities, detail, threads>>

Next ==
    \/ CreateSurvey
    \/ CompleteSurvey
    \/ AddAnswer
    \/ UpsertTemplateAnswer
    \/ QaAlertsDashboard
    \/ ExportQaAlertsCsv
    \/ DashReturn

Spec == Init /\ [][Next]_vars


\* ------------------------------------------------- concurrent request threads
\* Flask serves each request on its own thread; get_conn opens a connection
\* per call and the upsert's SELECT and its UPDATE / INSERT are separate
\* statements, so other threads' statements may run between them.

\* enum_template_answer / enum_template_skip enters _upsert_template_answer
UpsertCall(p) ==
    /\ dash = NoCall
    /\ pc[p] = "idle"
    /\ \E sid \in DOMAIN surveys, a \in TemplateUpsertInputs :
          req' = [req EXCEPT ![p] = [survey_id |-> sid, args |-> a]]
    /\ pc' = [pc EXCEPT ![p] = "select"]
    /\ UNCHANGED <<surveys, answers, facilities, dash, detail, found, lastw>>

\* cur.execute(SELECT id ...); row = cur.fetchone()
UpsertSelect(p) ==
    /\ pc[p] = "select"
    /\ \E aid \in LookupResults(answers, req[p].survey_id, req[p].args.template_question_id) :
          found' = [found EXCEPT ![p] = aid]
    /\ pc' = [pc EXCEPT ![p] = "write"]
    /\ UNCHANGED <<surveys, answers, facilities, dash, detail, req, lastw>>

\* if row: UPDATE ...; conn.commit()   else: add_answer(...)
UpsertCommit(p) ==
    /\ pc[p] = "write"
    /\ found[p] = 0 => Len(answers) < MaxAnswers
    /\ answers' = UpsertWrite(answers, found[p], req[p].survey_id, req[p].args)
    /\ lastw' = req[p]
    /\ pc' = [pc EXCEPT ![p] = "idle"]
    /\ req' = [req EXCEPT ![p] = NoReq]
    /\ found' = [found EXCEPT ![p] = 0]
    /\ UNCHANGED <<surveys, facilities, dash, detail>>

NextConc ==
    \/ CreateSurvey
    \/ \E p \in Procs : UpsertCall(p) \/ UpsertSelect(p) \/ UpsertCommit(p)

SpecConc == Init /\ [][NextConc]_vars


\* ------------------------------------------- writers during a scan
\* app.run serves each request on its own thread and get_conn opens a plain
\* connection per call, so the statements of qa_alerts_dashboard (one SELECT
\* over surveys, then per survey one aggregate SELECT and one facility
\* SELECT, each in autocommit) interleave with the writers' committed
\* statements.  While a scan runs, dash holds the fetched survey rows (svs),
\* the ids still to visit (todo), the alerts appended so far, and seen: the
\* list the whole scan would return on each store state since its start.

\* no other call than a dashboard scan is in progress
NoOtherCall ==
    /\ dash.state \in {"idle", "scanning"}
    /\ detail = NoDetail
    /\ \A p \in Procs : pc[p] = "idle"

\* the record of the running scan after the store became svs, ans
NoteState(svs, ans) ==
    IF dash.state = "scanning"
    THEN [dash EXCEPT !.seen = @ \cup {QaAlerts(svs, facilities, ans, dash.args)}]
    ELSE dash

\* surveys.complete_survey, possibly during a scan
WriterCompleteSurvey ==
    /\ NoOtherCall
    /\ \E sid \in DOMAIN surveys :
          /\ surveys' = SetCompleted(surveys, sid)
          /\ dash' = NoteState(surveys', answers)
    /\ UNCHANGED <<answers, facilities, detail, threads>>

\* surveys.add_answer, possibly during a scan
WriterAddAnswer ==
    /\ NoOtherCall
    /\ Len(answers) < MaxAnswers
    /\ \E sid \in DOMAIN surveys, a \in AddAnswerInputs :
          /\ answers' = InsertAnswer(answers, sid, a)
          /\ dash' = NoteState(surveys, answers')
    /\ UNCHANGED <<surveys, facilities, detail, threads>>

\* app._upsert_template_answer, possibly during a scan
WriterUpsert ==
    /\ NoOtherCall
    /\ \E sid \in DOMAIN surveys, a \in ScanUpsertInputs :
          /\ UpsertOf(sid, a)
          /\ dash' = NoteState(surveys, answers')
    /\ UNCHANGED <<surveys, facilities, detail, threads>>

\* qa_alerts_dashboard up to  surveys = cur.fetchall()
ScanStart ==
    /\ Quiet
    /\ \E a \in ScanInputs :
          dash' = [state |-> "scanning", args |-> a, svs |-> surveys,
                   todo |-> SelectSurveys(surveys, NormStatus(a.status_filter),
                                          Len(surveys)),
                   alerts |-> <<>>,
                   seen |-> {QaAlerts(surveys, facilities, answers, a)}]
    /\ UNCHANGED <<surveys, answers, facilities, detail, threads>>

\* one pass of  for s in surveys:  -- the aggregate and the facility name
\* are read from the store as it is now, the header from the fetched row
ScanStep ==
    /\ dash.state = "scanning"
    /\ dash.todo # <<>>
    /\ LET sid == Head(dash.todo)
           m == Aggregate(answers, sid)
           flags == Flags(m, dash.args.thr)
       IN  dash' = [dash EXCEPT
                       !.todo = Tail(@),
                       !.alerts = IF SkipSurvey(m, flags) THEN @
                                  ELSE Append(@, AlertRecord(dash.svs, facilities,
                                                             sid, m, flags))]
    /\ UNCHANGED <<surveys, answers, facilities, detail, threads>>

\* alerts.sort(...); return alerts[:int(limit)]
ScanFinish ==
    /\ dash.state = "scanning"
    /\ dash.todo = <<>>
    /\ dash' = [state |-> "returned", args |-> dash.args,
                alerts |-> Truncate(SortBySeverity(dash.alerts), dash.args.limit),
                seen |-> dash.seen]
    /\ UNCHANGED <<surveys, answers, facilities, detail, threads>>

NextScan ==
    \/ CreateSurvey
    \/ WriterCompleteSurvey
    \/ WriterAddAnswer
    \/ WriterUpsert
    \/ ScanStart
    \/ ScanStep
    \/ ScanFinish
    \/ DashReturn

SpecScan == Init /\ [][NextScan]_vars


\* ------------------------------------------------- enumerator ranking
\* Surveys of several enumerators, and the supervisor's ranking call.

\* surveys.create_survey by one of the enumerators
CreateSurveyBy ==
    /\ Quiet
    /\ Len(surveys) < MaxSurveys
    /\ \E f \in FacilityInputs, e \in PerfEnumeratorInputs :
          surveys' = InsertSurvey(surveys, f, e)
    /\ UNCHANGED <<answers, facilities, dash, detail, threads>>

\* enumerator_performance_dashboard (menu choice 22)
EnumeratorPerformanceDashboard ==
    /\ Quiet
    /\ \E a \in PerfInputs :
          dash' = [state |-> "ranked", args |-> a,
                   rows |-> EnumeratorPerformance(surveys, answers, a)]
    /\ UNCHANGED <<surveys, answers, facilities, detail, threads>>

NextEnum ==
    \/ CreateSurveyBy
    \/ CompleteSurvey
    \/ AddAnswer
    \/ EnumeratorPerformanceDashboard
    \/ DashReturn

SpecEnum == Init /\ [][NextEnum]_vars


\* ------------------------------------------- direct callers of the functions
\* menu.run_menu and importing code call the module functions with their own
\* arguments, one call at a time.

\* facilities.add_facility
AddFacility ==
    /\ Quiet
    /\ facilities < MaxFacilities
    /\ facilities' = facilities + 1
    /\ UNCHANGED <<surveys, answers, dash, detail, threads>>

\* surveys.create_survey with the facility id the caller typed
CreateSurveyDirect ==
    /\ Quiet
    /\ Len(surveys) < MaxApiSurveys
    /\ \E f \in ApiFacilityInputs, e \in EnumeratorInputs :
          surveys' = InsertSurvey(surveys, f, e)
    /\ UNCHANGED <<answers, facilities, dash, detail, threads>>

\* surveys.add_answer with the caller's keyword arguments
AddAnswerDirect ==
    /\ Quiet
    /\ Len(answers) < MaxAnswers
    /\ \E sid \in DOMAIN surveys, a \in AddAnswerApiInputs :
          answers' = InsertAnswer(answers, sid, a)
    /\ UNCHANGED <<surveys, facilities, dash, detail, threads>>

\* mutant: opening a survey marks it completed
GetSurveyDetails_Writes ==
    /\ Quiet
    /\ \E sid \in DetailInputs :
          /\ detail' = DetailOutcome(surveys, answers, sid, 0)
          /\ surveys' = SetCompleted(surveys, sid)
    /\ UNCHANGED <<answers, facilities, dash, threads>>

\* supervision.get_survey_details
GetSurveyDetails ==
    /\ Quiet
    /\ \E sid \in DetailInputs :
       \E h \in (IF HeaderRows(surveys, facilities, sid) = {} THEN {0}
                 ELSE HeaderRows(surveys, facilities, sid)) :
          detail' = DetailOutcome(surveys, answers, sid, h)
    /\ UNCHANGED <<surveys, answers, facilities, dash, threads>>

\* the caller is done with the triple or the exception (menu.run_menu)
DetailReturn ==
    /\ detail # NoDetail
    /\ detail' = NoDetail
    /\ UNCHANGED <<surveys, answers, facilities, dash, threads>>

\* supervision.qa_alerts_dashboard(status_filter="draft")
QaAlertsDrafts ==
    /\ Quiet
    /\ \E a \in DraftDashInputs :
          dash' = [state |-> "returned", args |-> a, alerts |-> QaAlerts(surveys, facilities, answers, a)]
    /\ UNCHANGED <<surveys, answers, facilities, detail, threads>>

NextApi ==
    \/ AddFacility
    \/ CreateSurveyDirect
    \/ AddAnswerDirect
    \/ UpsertTemplateAnswer
    \/ GetSurveyDetails
    \/ DetailReturn
    \/ QaAlertsDrafts
    \/ DashReturn

SpecApi == Init /\ [][NextApi]_vars


\* ------------------------------------------------------- bulk stores
\* qa_alerts_dashboard as a function of the store: one draft survey that
\* add_answer has filled with up to MaxBulkAnswers rows of three kinds, in
\* any proportion (the aggregate does not depend on the order of the rows).

\* add_answer arguments: a missing answer rated LOW, a missing answer
\* without rating, and a complete answer
BulkKinds ==
    <<[question |-> <<"Q">>, answer |-> <<>>, template_question_id |-> NoTq,
       answer_source |-> NULL, confidence_level |-> LOW,
       is_missing |-> 1, missing_reason |-> UNSURE],
      [question |-> <<"Q">>, answer |-> <<>>, template_question_id |-> NoTq,
       answer_source |-> NULL, confidence_level |-> NULL,
       is_missing |-> 1, missing_reason |-> UNAVAILABLE],
      [question |-> <<"Q">>, answer |-> <<"A">>, template_question_id |-> NoTq,
       answer_source |-> INTERVIEW, confidence_level |-> HIGH,
       is_missing |-> 0, missing_reason |-> NULL]>>

\* the table after n1, n2 and n3 add_answer calls of the three kinds on
\* survey 1
BulkStore(n1, n2, n3) ==
    [i \in 1..(n1 + n2 + n3) |->
        AnswerRow(1, BulkKinds[IF i <= n1 THEN 1 ELSE IF i <= n1 + n2 THEN 2 ELSE 3])]

InitBulk ==
    /\ surveys = InsertSurvey(<<>>, 1, <<"a","d","a">>)
    /\ \E n1, n2, n3 \in 0..MaxBulkAnswers :
          /\ n1 + n2 + n3 <= MaxBulkAnswers
          /\ answers = BulkStore(n1, n2, n3)
    /\ facilities = 0
    /\ dash = NoCall
    /\ detail = NoDetail
    /\ pc = [p \in Procs |-> "idle"]
    /\ req = [p \in Procs |-> NoReq]
    /\ found = [p \in Procs |-> 0]
    /\ lastw = NoReq

NextBulk ==
    \/ QaAlertsDrafts
    \/ DashReturn

SpecBulk == InitBulk /\ [][NextBulk]_vars


\* ------------------------------------------------------------- properties
\* Counts taken directly from the answer table, for comparison with what the
\* alert engine returned.

Returned == dash.state = "returned"

Range(s) == {s[i] : i \in DOMAIN s}

SurveyRows(sid) == {i \in DOMAIN answers : answers[i].survey_id = sid}

RECURSIVE SumIsMissing(_)
SumIsMissing(S) ==
    IF S = {} THEN 0
    ELSE LET i == CHOOSE j \in S : TRUE
         IN  answers[i].is_missing + SumIsMissing(S \ {i})

CntTotal(sid) == Cardinality(SurveyRows(sid))
CntMissing(sid) == SumIsMissing(SurveyRows(sid))
CntLowConf(sid) == Cardinality({i \in SurveyRows(sid) : answers[i].confidence_level = LOW})
CntNoSource(sid) ==
    Cardinality({i \in SurveyRows(sid) : answers[i].answer_source \in {NULL, <<>>}})
CntNoConf(sid) ==
    Cardinality({i \in SurveyRows(sid) : answers[i].confidence_level \in {NULL, <<>>}})

TagOrder == <<"MISSING", "LOW_CONF", "NO_SOURCE", "NO_CONF">>

\* the count behind a tag
TagCount(tag, sid) ==
    CASE tag = "MISSING" -> CntMissing(sid)
      [] tag = "LOW_CONF" -> CntLowConf(sid)
      [] tag = "NO_SOURCE" -> CntNoSource(sid)
      [] tag = "NO_CONF" -> CntNoConf(sid)

\* the threshold a tag is tested against
TagThr(tag, thr) ==
    CASE tag = "MISSING" -> thr.missing
      [] tag = "LOW_CONF" -> thr.low_conf
      [] tag = "NO_SOURCE" -> thr.no_source
      [] tag = "NO_CONF" -> thr.no_conf

\* 100 * count / total >= threshold, for total > 0
MeetsThr(tag, sid, thr) == 100 * TagCount(tag, sid) >= TagThr(tag, thr) * CntTotal(sid)

\* the survey whose status the call selects on
ExpectedStatus(f) == IF f \in {NULL, <<>>} THEN COMPLETED ELSE StrUpper(StrStrip(f))

\* C1: in every returned alert each tag is present iff the survey's percentage
\* is >= its threshold (equality flags), and the flags are in the fixed order
\* MISSING, LOW_CONF, NO_SOURCE, NO_CONF without duplicates.
C1_FlagRule ==
    Returned =>
        \A k \in DOMAIN dash.alerts :
            LET al == dash.alerts[k]
            IN  /\ CntTotal(al.survey_id) > 0
                /\ \A i \in DOMAIN TagOrder :
                      (TagOrder[i] \in Range(al.flags))
                          <=> MeetsThr(TagOrder[i], al.survey_id, dash.args.thr)
                /\ al.flags = SelectSeq(TagOrder, LAMBDA g : g \in Range(al.flags))

\* an alert flagged LOW_CONF at equality with a positive threshold, while
\* another tag stays below its threshold
C1_Witness ==
    /\ Returned
    /\ \E k \in DOMAIN dash.alerts :
          LET sid == dash.alerts[k].survey_id
          IN  /\ dash.args.thr.low_conf > 0
              /\ 100 * CntLowConf(sid) = dash.args.thr.low_conf * CntTotal(sid)
              /\ "LOW_CONF" \in Range(dash.alerts[k].flags)
              /\ "NO_CONF" \notin Range(dash.alerts[k].flags)

\* C2: the severity of every returned alert is the unweighted sum of the
\* survey's four percentages, whichever flags were raised.
C2_SeverityAdditive ==
    Returned =>
        \A k \in DOMAIN dash.alerts :
            LET al == dash.alerts[k]
                sid == al.survey_id
            IN  /\ al.severity[2] > 0
                /\ al.severity[1] * CntTotal(sid) =
                      100 * (CntMissing(sid) + CntLowConf(sid) + CntNoSource(sid)
                               + CntNoConf(sid)) * al.severity[2]

\* an alert in which an unflagged dimension contributes to the severity
C2_Witness ==
    /\ Returned
    /\ \E k \in DOMAIN dash.alerts :
          /\ "NO_CONF" \notin Range(dash.alerts[k].flags)
          /\ CntNoConf(dash.alerts[k].survey_id) > 0
          /\ dash.alerts[k].severity[1] > 100 * CntNoConf(dash.alerts[k].survey_id)

\* C3: a survey without answer rows is in no returned list, whatever the
\* status filter, the thresholds and the limit.
C3_SkipZeroTotal ==
    Returned =>
        \A sid \in DOMAIN surveys :
            SurveyRows(sid) = {} => \A k \in DOMAIN dash.alerts : dash.alerts[k].survey_id # sid

\* a call with thresholds 0 and the default limit over a store holding a
\* status-matching survey without answers, and returning another survey
C3_Witness ==
    /\ Returned
    /\ dash.args.thr = Thr(0, 0, 0, 0)
    /\ dash.args.limit = DefaultLimit
    /\ dash.alerts # <<>>
    /\ \E sid \in DOMAIN surveys :
          SurveyRows(sid) = {} /\ surveys[sid].status = ExpectedStatus(dash.args.status_filter)

\* C4: a survey whose four percentages are all strictly below their
\* thresholds is absent from the returned list, and every returned alert has
\* a non-empty flag list.
C4_SkipZeroFlags ==
    Returned =>
        /\ \A sid \in DOMAIN surveys :
              (CntTotal(sid) > 0 /\ \A i \in DOMAIN TagOrder :
                                      ~MeetsThr(TagOrder[i], sid, dash.args.thr))
                  => \A k \in DOMAIN dash.alerts : dash.alerts[k].survey_id # sid
        /\ \A k \in DOMAIN dash.alerts : dash.alerts[k].flags # <<>>

\* a status-matching survey with answers, all below threshold, next to a
\* flagged survey; the limit does not cut
C4_Witness ==
    /\ Returned
    /\ dash.args.limit = DefaultLimit
    /\ dash.alerts # <<>>
    /\ \E sid \in DOMAIN surveys :
          /\ surveys[sid].status = ExpectedStatus(dash.args.status_filter)
          /\ CntTotal(sid) > 0
          /\ \A i \in DOMAIN TagOrder : ~MeetsThr(TagOrder[i], sid, dash.args.thr)

\* C5: the returned list is sorted by severity, descending.
C5_SortedDesc ==
    Returned =>
        \A k \in DOMAIN dash.alerts :
            k + 1 \in DOMAIN dash.alerts =>
                dash.alerts[k].severity[1] * dash.alerts[k + 1].severity[2]
                    >= dash.alerts[k + 1].severity[1] * dash.alerts[k].severity[2]

\* two alerts of different severity returned against the scan order
C5_Witness ==
    /\ Returned
    /\ Len(dash.alerts) >= 2
    /\ dash.alerts[1].survey_id < dash.alerts[2].survey_id
    /\ dash.alerts[1].severity[1] * dash.alerts[2].severity[2]
          > dash.alerts[2].severity[1] * dash.alerts[1].severity[2]


\* the same call with another limit / other thresholds, on the same store
WithLimit(k) == QaAlerts(surveys, facilities, answers, [dash.args EXCEPT !.limit = k])
WithThr(thr) == QaAlerts(surveys, facilities, answers, [dash.args EXCEPT !.thr = thr])
Untruncated(thr) ==
    QaAlerts(surveys, facilities, answers, [dash.args EXCEPT !.thr = thr, !.limit = Len(surveys)])

LargerLimits(k) == {j \in (-1)..(MaxSurveys + 1) : j > k} \cup {j \in {DefaultLimit} : j > k}

FirstK(s, k) == SubSeq(s, 1, IF k < Len(s) THEN k ELSE Len(s))

\* C6 as stated: limit=k returns at most k alerts, and the list is the first k
\* entries of what the call returns with any larger limit.
C6_LimitAsStated ==
    Returned =>
        /\ Len(dash.alerts) <= dash.args.limit
        /\ \A j \in LargerLimits(dash.args.limit) :
              dash.alerts = FirstK(WithLimit(j), dash.args.limit)

\* C6 amended: for a limit k >= 0 the call returns at most k alerts, and the
\* list is the first k entries of what the call returns with any larger limit.
C6_LimitNonNegative ==
    (Returned /\ dash.args.limit >= 0) =>
        /\ Len(dash.alerts) <= dash.args.limit
        /\ \A j \in LargerLimits(dash.args.limit) :
              dash.alerts = FirstK(WithLimit(j), dash.args.limit)

\* limit 1 cut a ranked list of two alerts down to its first entry
C6_Witness ==
    /\ Returned
    /\ dash.args.limit = 1
    /\ Len(dash.alerts) = 1
    /\ Len(WithLimit(DefaultLimit)) = 2
    /\ dash.alerts[1] = WithLimit(DefaultLimit)[1]

\* thresholds that lower exactly one of the four, the others unchanged
LowerValues == {0, 50}
LoweredThr(thr) ==
    {[thr EXCEPT !.missing = v] : v \in {x \in LowerValues : x < thr.missing}}
    \cup {[thr EXCEPT !.low_conf = v] : v \in {x \in LowerValues : x < thr.low_conf}}
    \cup {[thr EXCEPT !.no_source = v] : v \in {x \in LowerValues : x < thr.no_source}}
    \cup {[thr EXCEPT !.no_conf = v] : v \in {x \in LowerValues : x < thr.no_conf}}

\* every alert of list a is in list b, with at least the same flags
KeptIn(a, b) ==
    \A k \in DOMAIN a :
        \E j \in DOMAIN b :
            /\ b[j].survey_id = a[k].survey_id
            /\ Range(a[k].flags) \subseteq Range(b[j].flags)

\* C7 as stated: with store, status filter and limit fixed, lowering a single
\* threshold keeps every returned survey in the result, with a superset of
\* its flags.
C7_MonotoneAsStated ==
    Returned =>
        \A thr \in LoweredThr(dash.args.thr) :
            LET after == WithThr(thr) IN KeptIn(dash.alerts, after)

\* C7 amended: the same, provided the limit is at least the number of alerts
\* the lowered thresholds produce (the limit does not cut the new list).
C7_MonotoneUntruncated ==
    Returned =>
        \A thr \in LoweredThr(dash.args.thr) :
            LET after == WithThr(thr)
            IN  Len(Untruncated(thr)) <= dash.args.limit => KeptIn(dash.alerts, after)

\* lowering one threshold, without truncation, adds an alert to a non-empty
\* result and adds a flag to an alert already returned
C7_Witness ==
    /\ Returned
    /\ dash.alerts # <<>>
    /\ \E thr \in LoweredThr(dash.args.thr) :
          LET after == WithThr(thr)
          IN  /\ Len(Untruncated(thr)) <= dash.args.limit
              /\ Len(after) > Len(dash.alerts)
              /\ \E k \in DOMAIN dash.alerts, j \in DOMAIN after :
                    /\ after[j].survey_id = dash.alerts[k].survey_id
                    /\ Len(after[j].flags) > Len(dash.alerts[k].flags)

\* C8: every returned alert belongs to a survey whose stored status is the
\* status filter trimmed and upper-cased (empty or absent: COMPLETED); with
\* the default filter no DRAFT survey is returned.
C8_StatusFilter ==
    Returned =>
        \A k \in DOMAIN dash.alerts :
            /\ surveys[dash.alerts[k].survey_id].status = ExpectedStatus(dash.args.status_filter)
            /\ dash.alerts[k].status = ExpectedStatus(dash.args.status_filter)
            /\ dash.args.status_filter \in {NULL, <<>>}
                  => surveys[dash.alerts[k].survey_id].status # DRAFT

\* a padded lower-case filter returned a COMPLETED survey while a DRAFT survey
\* with a skipped answer stayed out, thresholds 0
C8_Witness ==
    /\ Returned
    /\ dash.args.status_filter = <<" ","c","o","m","p","l","e","t","e","d"," ">>
    /\ dash.args.thr = Thr(0, 0, 0, 0)
    /\ dash.args.limit = DefaultLimit
    /\ dash.alerts # <<>>
    /\ \E sid \in DOMAIN surveys : surveys[sid].status = DRAFT /\ CntMissing(sid) > 0

\* C9: the answer table holds at most one row per (survey_id,
\* template_question_id) pair with non-null template_question_id.
C9_OneRowPerPair ==
    \A sid \in DOMAIN surveys, tqid \in TemplateQuestionIds :
        Cardinality(MatchingRows(answers, sid, tqid)) <= 1

\* C10: once no upsert is in flight, the pair written last has exactly one
\* row, and that row carries the values of the upsert that wrote last.
C10_ConcurrentUpsertConverges ==
    (lastw # NoReq /\ \A p \in Procs : pc[p] = "idle") =>
        LET rows == MatchingRows(answers, lastw.survey_id, lastw.args.template_question_id)
        IN  /\ Cardinality(rows) = 1
            /\ \A i \in rows :
                  /\ answers[i].answer = lastw.args.answer
                  /\ answers[i].answer_source = lastw.args.answer_source
                  /\ answers[i].confidence_level = lastw.args.confidence_level
                  /\ answers[i].is_missing = lastw.args.is_missing
                  /\ answers[i].missing_reason = lastw.args.missing_reason


\* C11: the status of a survey only moves forward: a row is inserted as DRAFT,
\* every stored status is DRAFT or COMPLETED, no survey row disappears, and a
\* COMPLETED survey is COMPLETED after every further step.
C11_StatusMonotone ==
    [][/\ \A sid \in DOMAIN surveys :
             /\ sid \in DOMAIN surveys'
             /\ surveys[sid].status = COMPLETED => surveys'[sid].status = COMPLETED
       /\ \A sid \in DOMAIN surveys' :
             /\ surveys'[sid].status \in {DRAFT, COMPLETED}
             /\ sid \notin DOMAIN surveys => surveys'[sid].status = DRAFT]_vars

\* a completed survey that has answers, next to a survey created as DRAFT
C11_Witness ==
    /\ Len(surveys) = 2
    /\ surveys[1].status = COMPLETED
    /\ surveys[2].status = DRAFT
    /\ \E i \in DOMAIN answers : answers[i].survey_id = 1

\* ------------------------------------------------------- survey details
\* What get_survey_details returned, against the answer table.  No other call
\* runs while the caller holds the result, so the table is the one it read.

DetailReturned == detail.state = "returned"
DetailRaised == detail.state = "raised"

\* the stored rows of the survey the call asked for
DetailRows == SurveyRows(detail.survey_id)

C13_SummaryPartition ==
    DetailReturned =>
        /\ detail.qa.total_answers =
              detail.qa.missing_count
              + Cardinality({i \in DetailRows :
                    answers[i].is_missing = 0 /\ answers[i].answer # <<>>})
        /\ detail.qa.missing_count <= detail.qa.total_answers
        /\ detail.qa.low_confidence_count <= detail.qa.total_answers
        /\ detail.qa.no_source_count <= detail.qa.total_answers
        /\ detail.qa.no_confidence_count <= detail.qa.total_answers

\* C14: for the survey a summary was returned for, the five counts of the
\* alert engine's aggregate query equal the five fields of the summary.
C14_AggregateEqualsSummary ==
    DetailReturned =>
        LET m == Aggregate(answers, detail.survey_id)
        IN  /\ m.total = detail.qa.total_answers
            /\ m.missing = detail.qa.missing_count
            /\ m.low_conf = detail.qa.low_confidence_count
            /\ m.no_source = detail.qa.no_source_count
            /\ m.no_conf = detail.qa.no_confidence_count

\* C15: a get_survey_details call for an id that is not in the surveys table
\* raises ValueError("Survey not found.") instead of returning, and leaves
\* the three tables as they were.
C15_NotFoundRaises ==
    [][(detail' # detail /\ detail' # NoDetail /\ detail'.survey_id \notin DOMAIN surveys)
          => /\ detail'.state = "raised"
             /\ detail'.error = "Survey not found."
             /\ surveys' = surveys /\ answers' = answers /\ facilities' = facilities]_vars

\* the call raised for an unknown id while surveys, facilities and answers exist
C15_Witness ==
    /\ DetailRaised
    /\ detail.survey_id \notin DOMAIN surveys
    /\ JoinedSurveys(surveys, facilities) # {}
    /\ answers # <<>>

\* C16: get_survey_details raises only for an id that is not in the surveys
\* table; for every stored survey it returns its triple.
C16_RaisesOnlyWhenAbsent ==
    /\ DetailRaised => detail.survey_id \notin DOMAIN surveys
    /\ DetailReturned =>
          /\ detail.header.id = detail.survey_id
          /\ \A k \in DOMAIN detail.answers :
                /\ answers[detail.answers[k].id].survey_id = detail.survey_id
                /\ k > 1 => detail.answers[k - 1].id < detail.answers[k].id

\* C17: every stored answer row with a true is_missing has a non-empty
\* missing_reason.
C17_MissingHasReason ==
    \A i \in DOMAIN answers :
        answers[i].is_missing # 0 => answers[i].missing_reason \notin {NULL, <<>>}

\* C18: answer rows are never deleted and never move to another survey, so
\* the ids stored for a survey only grow; a row with a NULL
\* template_question_id is never changed after its insert; a row that is
\* changed in place is a template answer and keeps its template question.
C18_AnswersOnlyGrow ==
    [][\A i \in DOMAIN answers :
          /\ i \in DOMAIN answers'
          /\ answers'[i].survey_id = answers[i].survey_id
          /\ answers[i].template_question_id = NoTq => answers'[i] = answers[i]
          /\ answers'[i] # answers[i] =>
                /\ answers[i].template_question_id \in TemplateQuestionIds
                /\ answers'[i].template_question_id = answers[i].template_question_id]_vars

\* a row the upsert rewrote in place: the second row of a (survey, template
\* question) pair can only have been inserted by add_answer, with HIGH
\* confidence, and holds another value now
C18_Witness ==
    \E i, j \in DOMAIN answers :
        /\ i < j
        /\ answers[i].survey_id = answers[j].survey_id
        /\ answers[i].template_question_id = 1
        /\ answers[j].template_question_id = 1
        /\ answers[j].confidence_level # HIGH

\* C19: a qa_alerts_dashboard or get_survey_details call, returning or
\* raising, leaves surveys, answers and facilities as they were.
C19_ReadOnly ==
    [][(dash' # dash \/ detail' # detail)
          => surveys' = surveys /\ answers' = answers /\ facilities' = facilities]_vars

\* the details of a DRAFT survey with answers were returned
C19_Witness ==
    /\ DetailReturned
    /\ detail.answers # <<>>
    /\ surveys[detail.survey_id].status = DRAFT
    /\ detail.header.status = DRAFT

\* C20: for every returned alert each of the survey's four percentages lies
\* in [0, 100] and the severity in [0, 400].
C20_PercentagesInRange ==
    Returned =>
        \A k \in DOMAIN dash.alerts :
            LET al == dash.alerts[k]
                sid == al.survey_id
            IN  /\ \A i \in DOMAIN TagOrder :
                      /\ 0 <= 100 * TagCount(TagOrder[i], sid)
                      /\ 100 * TagCount(TagOrder[i], sid) <= 100 * CntTotal(sid)
                /\ 0 <= al.severity[1]
                /\ al.severity[1] <= 400 * al.severity[2]

\* ------------------------------------------------- alert completeness
\* the survey is selected by the call's status filter
Matches(sid) == surveys[sid].status = ExpectedStatus(dash.args.status_filter)

\* the survey has answers and at least one percentage at its threshold
Flagged(sid) ==
    /\ CntTotal(sid) > 0
    /\ \E i \in DOMAIN TagOrder : MeetsThr(TagOrder[i], sid, dash.args.thr)

\* the limit is no smaller than the number of status-matching surveys
LimitCoversAll ==
    dash.args.limit >= Cardinality({sid \in DOMAIN surveys : Matches(sid)})

\* the positions of the returned alerts for one survey
AlertsOf(sid) == {k \in DOMAIN dash.alerts : dash.alerts[k].survey_id = sid}

\* C21: a status-matching flagged survey whose facility_id has no facility
\* row is reported (the limit permitting) and every alert of a survey without
\* a facility row carries the placeholder "-" as facility_name.
C21_MissingFacilityPlaceholder ==
    Returned =>
        /\ \A sid \in DOMAIN surveys :
              (Matches(sid) /\ Flagged(sid) /\ LimitCoversAll
                    /\ surveys[sid].facility_id \notin 1..facilities)
                  => AlertsOf(sid) # {}
        /\ \A k \in DOMAIN dash.alerts :
              dash.alerts[k].facility_id \notin 1..facilities
                  => dash.alerts[k].facility_name = <<"-">>

\* a facility exists, and a flagged draft survey pointing at an absent
\* facility id is reported with the placeholder
C21_Witness ==
    /\ Returned
    /\ facilities > 0
    /\ \E k \in DOMAIN dash.alerts :
          /\ dash.alerts[k].facility_id \notin 1..facilities
          /\ dash.alerts[k].facility_name = <<"-">>
          /\ Matches(dash.alerts[k].survey_id)

\* ------------------------------------------------------------ CSV export
Exported == dash.state = "exported"

\* the percentage and count fields of an alert, as the export names them
PercentageKeys ==
    {"missing", "missing_pct", "low_confidence", "low_conf_pct",
     "no_source", "no_source_pct", "no_confidence", "no_conf_pct"}

\* C22: every alert qa_alerts_dashboard returns carries the four raw
\* percentages and their counts, and export_qa_alerts_csv writes one data row
\* per alert without error.
C22_ExportOneRowPerAlert ==
    /\ (Returned \/ Exported) =>
          \A k \in DOMAIN dash.alerts : PercentageKeys \subseteq DOMAIN dash.alerts[k]
    /\ Exported =>
          dash.export.state = "written" /\ dash.export.rows = Len(dash.alerts)

\* ------------------------------------------------------------ tie order
\* C23: of two returned alerts with the same severity the one with the
\* larger survey id comes first (the scan order, kept by the stable sort).
C23_TiesKeepScanOrder ==
    Returned =>
        \A i, j \in DOMAIN dash.alerts :
            (i < j /\ dash.alerts[i].severity[3] = dash.alerts[j].severity[3])
                => dash.alerts[i].survey_id > dash.alerts[j].survey_id

\* two alerts of equal, non-zero severity are returned
C23_Witness ==
    /\ Returned
    /\ Len(dash.alerts) = 2
    /\ dash.alerts[1].severity[3] = dash.alerts[2].severity[3]
    /\ dash.alerts[1].severity[3] # FZero
    /\ dash.alerts[1].survey_id = 2

\* ------------------------------------------------- enumerator ranking
Ranked == dash.state = "ranked"

\* the answer rows of the status-matching surveys of one enumerator
EnumRows(name) ==
    {i \in DOMAIN answers :
        /\ answers[i].survey_id \in DOMAIN surveys
        /\ Matches(answers[i].survey_id)
        /\ surveys[answers[i].survey_id].enumerator_name = name}

\* the count behind a tag over a set of answer rows
RowsTagCount(tag, S) ==
    CASE tag = "MISSING" -> SumIsMissing(S)
      [] tag = "LOW_CONF" -> Cardinality({i \in S : answers[i].confidence_level = LOW})
      [] tag = "NO_SOURCE" -> Cardinality({i \in S : answers[i].answer_source \in {NULL, <<>>}})
      [] tag = "NO_CONF" -> Cardinality({i \in S : answers[i].confidence_level \in {NULL, <<>>}})

RowsMeetThr(tag, S) ==
    100 * RowsTagCount(tag, S) >= TagThr(tag, dash.args.thr) * Cardinality(S)

\* the enumerators that have a status-matching survey, and those among them
\* whose union of answers is non-empty and meets a threshold
MatchingEnumerators ==
    {surveys[sid].enumerator_name : sid \in {i \in DOMAIN surveys : Matches(i)}}
FlaggedEnumerators ==
    {n \in MatchingEnumerators :
        /\ EnumRows(n) # {}
        /\ \E i \in DOMAIN TagOrder : RowsMeetThr(TagOrder[i], EnumRows(n))}

\* the double severity of an enumerator's union of answers
RowsSeverity(S) ==
    SeverityDouble(Cardinality(S), RowsTagCount("MISSING", S), RowsTagCount("LOW_CONF", S),
                   RowsTagCount("NO_SOURCE", S), RowsTagCount("NO_CONF", S))

C25_EveryFlaggedSurveyOnce ==
    (Returned /\ LimitCoversAll) =>
        \A sid \in DOMAIN surveys :
            /\ (Matches(sid) /\ Flagged(sid)) => Cardinality(AlertsOf(sid)) = 1
            /\ Cardinality(AlertsOf(sid)) <= 1

\* the limit equals the number of status-matching surveys, one of which is
\* flagged, next to a survey of the other status
C25_Witness ==
    /\ Returned
    /\ dash.args.limit = 1
    /\ LimitCoversAll
    /\ Len(surveys) = 2
    /\ \E sid \in DOMAIN surveys : Matches(sid) /\ Flagged(sid) /\ AlertsOf(sid) # {}

\* ------------------------------------------------------ sequential upsert
\* the six columns of row i hold the values of the arguments a
HoldsValues(row, a) ==
    /\ row.question = a.question
    /\ row.answer = a.answer
    /\ row.answer_source = a.answer_source
    /\ row.confidence_level = a.confidence_level
    /\ row.is_missing = a.is_missing
    /\ row.missing_reason = a.missing_reason

ScanReturned == dash.state = "returned" /\ "seen" \in DOMAIN dash

\* C27: the list a scan returns while writers interleave equals the list the
\* scan yields on one of the store states that existed between its start and
\* its end.
C27_ScanSeesOneState ==
    ScanReturned => dash.alerts \in dash.seen

\* ------------------------------------------------------------ add_answer
\* the text is absent or consists of whitespace only
BlankText(x) == x = NULL \/ \A i \in DOMAIN x : IsSpace(x[i])

\* the calls for which add_answer is to raise
MustRaise(a) == BlankText(a.question) \/ (BlankText(a.answer) /\ a.is_missing = 0)

\* every argument record add_answer is called with in the model
AllAddAnswerInputs == AddAnswerInputs \cup AddAnswerApiInputs

\* C28: add_answer raises and inserts nothing when the question is blank
\* after trimming, or the answer is blank after trimming and is_missing is
\* falsy; otherwise it appends exactly one row for the given survey under a
\* new id and changes no existing answer row, whatever the survey's status;
\* a step that adds an answer row changes no survey header.
C28_AddAnswerContract ==
    [][/\ \A sid \in DOMAIN surveys, a \in AllAddAnswerInputs :
             LET after == InsertAnswer(answers, sid, a)
             IN  /\ AddAnswerRaises(a) <=> MustRaise(a)
                 /\ MustRaise(a) => after = answers
                 /\ ~MustRaise(a) =>
                       /\ DOMAIN after = DOMAIN answers \cup {Len(answers) + 1}
                       /\ after[Len(answers) + 1].survey_id = sid
                       /\ \A j \in DOMAIN answers : after[j] = answers[j]
       /\ (\E sid \in DOMAIN surveys, a \in AllAddAnswerInputs :
              answers' = InsertAnswer(answers, sid, a) /\ answers' # answers)
             => surveys' = surveys]_vars

\* a completed survey and a draft survey, an answer stored on the completed
\* one, and room for a further add_answer call on either
C28_Witness ==
    /\ Len(answers) = 1
    /\ Len(answers) < MaxAnswers
    /\ answers[1].template_question_id = NoTq
    /\ \E i, j \in DOMAIN surveys :
          /\ surveys[i].status = COMPLETED
          /\ surveys[j].status = DRAFT
          /\ answers[1].survey_id = i

\* ------------------------------------------------- confidence partition
\* the rows counted as low confidence and as no confidence
LowConfRows(sid) == {i \in SurveyRows(sid) : answers[i].confidence_level = LOW}
NoConfRows(sid) == {i \in SurveyRows(sid) : answers[i].confidence_level \in {NULL, <<>>}}

\* every is_missing value of the survey is 0 or 1
BooleanMissing(sid) == \A i \in SurveyRows(sid) : answers[i].is_missing \in {0, 1}

\* the doubles 100.0 and 300.0
F100 == <<100, 0, 0, 0, 0>>
F300 == <<300, 0, 0, 0, 0>>

\* low_conf_pct + no_conf_pct of a survey, as the code's doubles
ConfPctSum(sid) ==
    FAdd(PctDouble(CntLowConf(sid), CntTotal(sid)), PctDouble(CntNoConf(sid), CntTotal(sid)))

\* C29 as stated: the low-confidence and the no-confidence rows of a survey
\* are disjoint, in every alert low_conf_pct + no_conf_pct <= 100, and the
\* severity of a survey whose is_missing values are all 0 or 1 is <= 300.
C29_SeverityAtMost300 ==
    Returned =>
        \A k \in DOMAIN dash.alerts :
            LET sid == dash.alerts[k].survey_id
            IN  /\ LowConfRows(sid) \cap NoConfRows(sid) = {}
                /\ ~FGT(ConfPctSum(sid), F100)
                /\ BooleanMissing(sid) => ~FGT(dash.alerts[k].severity[3], F300)

\* C29, amended: the two row sets are disjoint, low_conf_pct + no_conf_pct
\* <= 100, and for a survey whose is_missing values are all 0 or 1 the exact
\* sum of the four percentages is <= 300, the severity double the alert
\* carries being below 301.
C29_ExactSeverityAtMost300 ==
    Returned =>
        \A k \in DOMAIN dash.alerts :
            LET sid == dash.alerts[k].survey_id
                sev == dash.alerts[k].severity
            IN  /\ LowConfRows(sid) \cap NoConfRows(sid) = {}
                /\ CntLowConf(sid) + CntNoConf(sid) <= dash.alerts[k].total_answers
                /\ ~FGT(ConfPctSum(sid), F100)
                /\ BooleanMissing(sid) =>
                      /\ sev[1] <= 300 * sev[2]
                      /\ sev[3][1] <= 300

\* an alert whose exact severity is 300 and whose double is above 300.0
C29_Witness ==
    /\ Returned
    /\ \E k \in DOMAIN dash.alerts :
          /\ BooleanMissing(dash.alerts[k].survey_id)
          /\ dash.alerts[k].severity[1] = 300 * dash.alerts[k].severity[2]
          /\ FGT(dash.alerts[k].severity[3], F300)
          /\ LowConfRows(dash.alerts[k].survey_id) # {}
          /\ NoConfRows(dash.alerts[k].survey_id) # {}

\* ------------------------------------------------------- manual surveys
\* the row add_answer stores for  add_answer(sid, q, a): no template
\* question, no source, no confidence, not missing
ManualRow(i) ==
    /\ answers[i].template_question_id = NoTq
    /\ answers[i].answer_source = NULL
    /\ answers[i].confidence_level = NULL
    /\ answers[i].is_missing = 0
    /\ answers[i].missing_reason = NULL

\* a completed survey with at least one answer, all of them manual
ManualCompleted(sid) ==
    /\ surveys[sid].status = COMPLETED
    /\ SurveyRows(sid) # {}
    /\ \A i \in SurveyRows(sid) : ManualRow(i)

\* C30: a completed survey with at least one answer whose answers were all
\* saved by the manual path is reported by every qa_alerts_dashboard call
\* over COMPLETED with the default thresholds whose limit does not cut, with
\* the flags NO_SOURCE and NO_CONF and a severity of at least 200.
C30_ManualSurveyReported ==
    (Returned /\ dash.args.thr = DefaultThr /\ LimitCoversAll) =>
        \A sid \in DOMAIN surveys :
            (ManualCompleted(sid) /\ Matches(sid)) =>
                \E k \in DOMAIN dash.alerts :
                    /\ dash.alerts[k].survey_id = sid
                    /\ dash.alerts[k].flags = <<"NO_SOURCE", "NO_CONF">>
                    /\ dash.alerts[k].severity[1] >= 200 * dash.alerts[k].severity[2]
                    /\ ~FGT(<<200, 0, 0, 0, 0>>, dash.alerts[k].severity[3])

\* the default call reports a completed survey holding two manual answers
C30_Witness ==
    /\ Returned
    /\ dash.args = [status_filter |-> NULL, thr |-> DefaultThr, limit |-> DefaultLimit]
    /\ \E sid \in DOMAIN surveys :
          /\ ManualCompleted(sid)
          /\ CntTotal(sid) = 2
          /\ AlertsOf(sid) # {}

====
